---- MODULE Spec2Model ----
(***************************************************************************)
(* Model of dnscrypt-proxy/sources.go: signed source lists that are loaded *)
(* from a cache pair (blob + ".minisig"), refreshed from an ordered list   *)
(* of mirrors, and rescheduled by PrefetchSources.                         *)
(*                                                                         *)
(* Time is counted in units of 10 minutes (MinimumPrefetchInterval = 1,    *)
(* DefaultPrefetchDelay = 24h = 144).  A call of fetchWithCache is taken   *)
(* to complete within one unit of the clock.                               *)
(***************************************************************************)
EXTENDS Integers, Sequences, FiniteSets, TLC

DefaultPrefetchDelay == 144
MinimumPrefetchInterval == 1

\* the zero value of time.Time (source.refresh before any scheduling)
ZeroTime == 0

\* number of times the clock advances between calls
MaxTicks == 2

\* the clock advances by 10 minutes, 1 hour or 24 hours
Ticks == {1, 6, 144}

Sources == {"A", "B"}

\* content blobs, and nil for an empty []byte
Blobs == {"B1", "B2"}
Nil == ""

\* a file that does not exist
NoFile == "<missing>"

\* minisign signatures: the source's key over B1, over B2, a different
\* key over B1, and text that does not decode as a signature
Sigs == {"K:B1", "K:B2", "X:B1", "junk"}

SigDecodes(sig) == sig \in {"K:B1", "K:B2", "X:B1"}

SigKey(sig) == IF sig = "X:B1" THEN "X" ELSE "K"

SigMsg(sig) == IF sig = "K:B2" THEN "B2" ELSE "B1"

\* checkSignature that decodes the signature and does not verify it
checkSignatureNoVerify(key, bin, sig) == SigDecodes(sig)

\* checkSignature: TRUE iff err == nil
checkSignature(key, bin, sig) ==
    /\ SigDecodes(sig)
    /\ SigKey(sig) = key
    /\ SigMsg(sig) = bin

\* NewSource arguments, as the configuration file gives them
Formats == {"v2", "v1"}
KeyStrs == {"K", "malformed"}
RefreshDelays == {0, 288}
UrlStrs == {<<"%zz">>, <<"m1">>, <<"m1", "%zz", "m2", "m3">>}

\* a source that the configuration file does not list
NoConf == [urls |-> <<>>, key |-> "", format |-> "", refreshDelay |-> 0]

\* the configurations of one source: a configuration that NewSource rejects
\* or a refreshDelay above the floor is tried with the one mirror m1
OneConfs ==
    {a \in [urls : UrlStrs, key : KeyStrs, format : Formats, refreshDelay : RefreshDelays] :
        /\ (a.key = "malformed" \/ a.format = "v1") => (a.urls = <<"m1">> /\ a.refreshDelay = 0)
        /\ a.refreshDelay > DefaultPrefetchDelay => a.urls = <<"m1">>}

\* a configuration file that lists two sources: the mirror of A is up and
\* the mirror of B is down
TwoConf ==
    [s \in Sources |->
        [urls |-> IF s = "A" THEN <<"up">> ELSE <<"down">>, key |-> "K", format |-> "v2",
         refreshDelay |-> 0]]

\* url.Parse: TRUE iff err == nil
urlParses(urlStr) == urlStr # "%zz"

\* parseURLs: the urls that parse, in the given order
RECURSIVE parseURLs(_)
parseURLs(urls) ==
    IF urls = <<>> THEN <<>>
    ELSE IF urlParses(Head(urls)) THEN <<Head(urls)>> \o parseURLs(Tail(urls))
    ELSE parseURLs(Tail(urls))

\* outcomes of the file reads and the stat in fetchFromCache
CacheIO == {"ok", "readBinFails", "readSigFails", "statFails"}

\* what a mirror serves for (srcURL, sigURL): a failed blob download, a
\* blob and a failed signature download, or a blob and a signature.  The
\* mirror "up" always serves a pair signed with the key K, the mirror
\* "down" never answers, the mirror "m2" serves a signature that does not
\* decode or a pair that verifies, the mirror "m3" fails or serves a pair
\* that verifies, every other mirror does any of these.
MirrorReplies(url) ==
    IF url = "up" THEN {[bin |-> "B1", sig |-> "K:B1"]}
    ELSE IF url = "down" THEN {[bin |-> NoFile, sig |-> NoFile]}
    ELSE IF url = "m2" THEN {[bin |-> "B1", sig |-> "junk"], [bin |-> "B2", sig |-> "K:B2"]}
    ELSE IF url = "m3" THEN {[bin |-> NoFile, sig |-> NoFile], [bin |-> "B2", sig |-> "K:B2"]}
    ELSE {[bin |-> NoFile, sig |-> NoFile], [bin |-> "B1", sig |-> NoFile],
          [bin |-> "B1", sig |-> "K:B1"], [bin |-> "B2", sig |-> "K:B2"],
          [bin |-> "B1", sig |-> "junk"]}

VARIABLES
    conf,       \* conf[s]: the configuration of s, read at every process start
    clock,      \* timeNow()
    ticks,      \* how often the clock has advanced
    src,        \* src[s]: the Source struct of s, or its absence
    disk,       \* disk[s]: cacheFile and cacheFile + ".minisig" of s
    frame,      \* frame[s]: the running call of s.fetchWithCache
    sweep,      \* the running call of PrefetchSources
    parse       \* the running call of Parse

vars == <<conf, clock, ticks, src, disk, frame, sweep, parse>>

SourceFormatV2 == 0

NoSource ==
    [made |-> FALSE, urls |-> <<>>, format |-> SourceFormatV2, in |-> Nil,
     inSig |-> NoFile, minisignKey |-> "", cacheTTL |-> 0, prefetchDelay |-> 0,
     refresh |-> ZeroTime, last |-> "", newErr |-> "", at |-> ZeroTime,
     netAt |-> ZeroTime]

IdleFrame ==
    [pc |-> "idle", caller |-> "", now |-> 0, delay |-> 0, err |-> "",
     i |-> 0, bin |-> Nil, sig |-> Nil, log |-> <<>>, adopted |-> FALSE,
     in0 |-> Nil, oldBin |-> NoFile, oldSig |-> NoFile, wrote |-> ""]

IdleSweep ==
    [pc |-> "idle", now |-> 0, sources |-> <<>>, idx |-> 0, interval |-> 0,
     log |-> <<>>]

IdleParse ==
    [pc |-> "idle", s |-> "", in |-> <<>>, prefix |-> "", servers |-> <<>>,
     stampErrs |-> <<>>, err |-> ""]

Quiet ==
    /\ sweep.pc = "idle"
    /\ parse.pc = "idle"
    /\ \A s \in Sources : frame[s].pc = "idle"

\* cache pairs found at process start
InitPairs ==
    {[bin |-> NoFile, sig |-> NoFile], [bin |-> "B1", sig |-> NoFile],
     [bin |-> "B1", sig |-> "K:B1"], [bin |-> "B1", sig |-> "X:B1"],
     [bin |-> "B2", sig |-> "K:B1"]}

Configured == {s \in Sources : conf[s] # NoConf}

Init ==
    /\ clock = ZeroTime + 1
    /\ ticks = 0
    /\ src = [s \in Sources |-> NoSource]
    /\ \/ \E a \in OneConfs : conf = [s \in Sources |-> IF s = "A" THEN a ELSE NoConf]
       \/ conf = TwoConf
    /\ \E pairs \in [Sources -> InitPairs] :
          /\ \A s \in Sources : conf["B"] # NoConf => pairs[s].bin = NoFile
          /\ \A s \in Sources : conf[s] = NoConf => pairs[s].bin = NoFile
          /\ disk = [s \in Sources |->
                       [bin |-> pairs[s].bin, sig |-> pairs[s].sig, mtime |-> ZeroTime + 1]]
    /\ frame = [s \in Sources |-> IdleFrame]
    /\ sweep = IdleSweep
    /\ parse = IdleParse

\* one cache path for every source
cacheFileShared(s) == "A"

\* source.cacheFile: the sources are configured with distinct paths
cacheFile(s) == s

\* the clock advances between calls
Tick(d) ==
    /\ Quiet
    /\ ticks < MaxTicks
    /\ clock' = clock + d
    /\ ticks' = ticks + 1
    /\ UNCHANGED <<parse, conf, src, disk, frame, sweep>>

\* fetchFromCache that checks the signature of a stale cache only
fetchFromCacheTrustFresh(source, d, now, io) ==
    LET miss(e) == [in |-> source.in, inSig |-> source.inSig, delay |-> 0,
                    err |-> e, adopted |-> FALSE]
        elapsed == now - d.mtime
    IN  IF d.bin = NoFile \/ io = "readBinFails" THEN miss("ReadError")
        ELSE IF d.sig = NoFile \/ io = "readSigFails" THEN miss("ReadError")
        ELSE IF io = "statFails" THEN miss("StatError")
        ELSE IF elapsed < source.cacheTTL
             THEN [in |-> d.bin, inSig |-> d.sig, delay |-> source.prefetchDelay - elapsed,
                   err |-> "", adopted |-> TRUE]
        ELSE IF ~(SigDecodes(d.sig) /\ SigKey(d.sig) = source.minisignKey
                                   /\ SigMsg(d.sig) = d.bin)
             THEN miss("SignatureInvalid")
        ELSE [in |-> d.bin, inSig |-> d.sig, delay |-> 0, err |-> "", adopted |-> TRUE]

\* fetchFromCache: the new source.in, the signature it was checked with,
\* and the returned (delay, err)
fetchFromCache(source, d, now, io) ==
    LET miss(e) == [in |-> source.in, inSig |-> source.inSig, delay |-> 0,
                    err |-> e, adopted |-> FALSE]
    IN  IF d.bin = NoFile \/ io = "readBinFails" THEN miss("ReadError")
        ELSE IF d.sig = NoFile \/ io = "readSigFails" THEN miss("ReadError")
        ELSE IF ~checkSignature(source.minisignKey, d.bin, d.sig)
             THEN miss("SignatureInvalid")
        ELSE IF io = "statFails"
             THEN [in |-> d.bin, inSig |-> d.sig, delay |-> 0, err |-> "StatError",
                   adopted |-> TRUE]
        ELSE LET elapsed == now - d.mtime
             IN  [in |-> d.bin, inSig |-> d.sig,
                  delay |-> IF elapsed < source.cacheTTL
                            THEN source.prefetchDelay - elapsed ELSE 0,
                  err |-> "", adopted |-> TRUE]

\* source.refresh assigned only when the refresh succeeded
deferRefreshOnSuccess(source, now, delay) ==
    IF Len(source.urls) > 0 /\ delay = source.prefetchDelay THEN now + delay
    ELSE source.refresh

\* source.refresh = now, without the delay
deferRefreshNow(source, now, delay) ==
    IF Len(source.urls) > 0 THEN now ELSE source.refresh

\* the deferred assignment of fetchWithCache, run at every return after
\* it was registered
deferRefresh(source, now, delay) ==
    IF Len(source.urls) > 0 THEN now + delay ELSE source.refresh

\* the delay of fetchFromCache kept when the mirrors are contacted
provisionalDelayKept(delay) == delay

\* the delay set before the mirrors are contacted
provisionalDelay(delay) == MinimumPrefetchInterval

\* fetchWithCache up to the mirror loop
FetchFromCache(s, io) ==
    /\ frame[s].pc = "cache"
    /\ LET f == frame[s]
           source == src[s]
           r == fetchFromCache(source, disk[cacheFile(s)], f.now, io)
           loaded == [source EXCEPT !.in = r.in, !.inSig = r.inSig]
           ret == [f EXCEPT !.pc = "done", !.delay = r.delay, !.err = r.err,
                            !.adopted = r.adopted]
           how == IF r.err = "" THEN "cache" ELSE "failed"
       IN  IF r.err # "" /\ Len(source.urls) = 0
           THEN /\ src' = [src EXCEPT ![s] = [loaded EXCEPT !.last = how]]
                /\ frame' = [frame EXCEPT ![s] = ret]
           ELSE IF Len(source.urls) = 0 \/ r.delay > 0
           THEN /\ src' = [src EXCEPT ![s] =
                             [loaded EXCEPT !.refresh = deferRefresh(source, f.now, r.delay),
                                            !.last = how]]
                /\ frame' = [frame EXCEPT ![s] = ret]
           ELSE /\ src' = [src EXCEPT ![s] = loaded]
                /\ frame' = [frame EXCEPT ![s] =
                               [f EXCEPT !.pc = "net", !.delay = provisionalDelay(r.delay),
                                         !.err = r.err, !.adopted = r.adopted, !.i = 1,
                                         !.in0 = r.in, !.oldBin = disk[cacheFile(s)].bin,
                                         !.oldSig = disk[cacheFile(s)].sig]]
    /\ UNCHANGED <<parse, conf, clock, ticks, disk, sweep>>

\* a mirror loop that gives up at the first signature that fails
afterMirrorAbort(err, i, n) ==
    IF err = "" THEN "break"
    ELSE IF i < n /\ err # "SignatureInvalid" THEN "continue"
    ELSE "return"

\* a mirror loop that does not test err after the last mirror
afterMirrorNoTest(err, i, n) ==
    IF err = "" THEN "break"
    ELSE IF i < n THEN "continue"
    ELSE "break"

\* what the mirror loop does after the attempt at mirror i of n
afterMirror(err, i, n) ==
    IF err = "" THEN "break"
    ELSE IF i < n THEN "continue"
    ELSE "return"

\* one iteration of the mirror loop, and the code after the loop when the
\* loop ends
FetchFromMirror(s, reply) ==
    /\ frame[s].pc = "net"
    /\ reply \in MirrorReplies(src[s].urls[frame[s].i])
    /\ LET f == frame[s]
           source == src[s]
           binFails == reply.bin = NoFile
           sigFails == reply.sig = NoFile
           bin == IF binFails THEN Nil ELSE reply.bin
           sig == IF binFails THEN f.sig ELSE IF sigFails THEN Nil ELSE reply.sig
           err == IF binFails THEN "DownloadFailed"
                  ELSE IF sigFails THEN "SigDownloadFailed"
                  ELSE IF checkSignature(source.minisignKey, bin, sig) THEN ""
                  ELSE "SignatureInvalid"
           g == [f EXCEPT !.bin = bin, !.sig = sig, !.err = err,
                          !.log = Append(f.log, [url |-> source.urls[f.i], err |-> err,
                                                 bin |-> reply.bin, sig |-> reply.sig])]
           todo == afterMirror(err, f.i, Len(source.urls))
       IN  IF todo = "continue"
           THEN /\ frame' = [frame EXCEPT ![s] = [g EXCEPT !.i = f.i + 1]]
                /\ src' = src
           ELSE IF todo = "return"
           THEN /\ frame' = [frame EXCEPT ![s] = [g EXCEPT !.pc = "done"]]
                /\ src' = [src EXCEPT ![s].refresh = deferRefresh(source, f.now, g.delay),
                                      ![s].last = "failed"]
           ELSE /\ frame' = [frame EXCEPT ![s] =
                               [g EXCEPT !.pc = "writeBin", !.oldBin = disk[cacheFile(s)].bin,
                                         !.oldSig = disk[cacheFile(s)].sig]]
                /\ src' = [src EXCEPT ![s].in = bin, ![s].inSig = sig]
    /\ UNCHANGED <<parse, conf, clock, ticks, disk, sweep>>

\* a return that hands the error of writeToCache to the caller
returnFetchedFatal(s, f) ==
    /\ frame' = [frame EXCEPT ![s] =
                   [f EXCEPT !.pc = "done",
                             !.err = IF f.wrote = "ok" THEN "" ELSE "WriteError",
                             !.delay = IF f.wrote = "ok" THEN src[s].prefetchDelay
                                       ELSE f.delay]]
    /\ src' = [src EXCEPT ![s].refresh =
                             deferRefresh(src[s], f.now,
                                          IF f.wrote = "ok" THEN src[s].prefetchDelay
                                          ELSE f.delay),
                          ![s].last = "network"]

\* a return that leaves the delay at the provisional delay
returnFetchedNoDelay(s, f) ==
    /\ frame' = [frame EXCEPT ![s] = [f EXCEPT !.pc = "done"]]
    /\ src' = [src EXCEPT ![s].refresh = deferRefresh(src[s], f.now, f.delay),
                          ![s].last = "network"]

\* the return of fetchWithCache after writeToCache
returnFetched(s, f) ==
    /\ frame' = [frame EXCEPT ![s] = [f EXCEPT !.pc = "done",
                                               !.delay = src[s].prefetchDelay]]
    /\ src' = [src EXCEPT ![s].refresh = deferRefresh(src[s], f.now, src[s].prefetchDelay),
                          ![s].last = "network"]

\* writeToCache: safefile.WriteFile(f, bin)
WriteBlob(s, ok) ==
    /\ frame[s].pc = "writeBin"
    /\ IF ok
       THEN /\ disk' = [disk EXCEPT ![cacheFile(s)].bin = frame[s].bin,
                                 ![cacheFile(s)].mtime = clock]
            /\ frame' = [frame EXCEPT ![s].pc = "writeSig", ![s].wrote = "blob"]
            /\ src' = src
       ELSE /\ disk' = disk
            /\ returnFetched(s, [frame[s] EXCEPT !.wrote = "blobFailed"])
    /\ UNCHANGED <<parse, conf, clock, ticks, sweep>>

\* writeToCache: safefile.WriteFile(f + ".minisig", sig), and the return
\* of fetchWithCache
WriteSig(s, ok) ==
    /\ frame[s].pc = "writeSig"
    /\ disk' = IF ok THEN [disk EXCEPT ![cacheFile(s)].sig = frame[s].sig] ELSE disk
    /\ returnFetched(s, [frame[s] EXCEPT !.wrote = IF ok THEN "ok" ELSE "sigFailed"])
    /\ UNCHANGED <<parse, conf, clock, ticks, sweep>>

\* a key parser that takes every key string that is not empty
keyParsesLax(minisignKeyStr) == minisignKeyStr # ""

\* minisign.NewPublicKey: TRUE iff err == nil
keyParses(minisignKeyStr) == minisignKeyStr # "malformed"

\* NewSource up to the call of fetchWithCache
NewSource(s, urls, minisignKeyStr, formatStr, refreshDelay) ==
    /\ Quiet
    /\ ~src[s].made
    /\ s \in Configured
    /\ LET ttl == IF refreshDelay < DefaultPrefetchDelay
                  THEN DefaultPrefetchDelay ELSE refreshDelay
           source == [NoSource EXCEPT !.made = TRUE, !.cacheTTL = ttl,
                                      !.prefetchDelay = DefaultPrefetchDelay]
       IN  IF formatStr # "v2"
           THEN /\ src' = [src EXCEPT ![s] = [source EXCEPT !.newErr = "UnsupportedFormat"]]
                /\ frame' = frame
           ELSE IF ~keyParses(minisignKeyStr)
           THEN /\ src' = [src EXCEPT ![s] = [source EXCEPT !.newErr = "BadKey"]]
                /\ frame' = frame
           ELSE /\ src' = [src EXCEPT ![s] =
                             [source EXCEPT !.minisignKey = minisignKeyStr,
                                            !.urls = parseURLs(urls)]]
                /\ frame' = [frame EXCEPT ![s] =
                               [IdleFrame EXCEPT !.pc = "cache", !.caller = "NewSource",
                                                 !.now = clock]]
    /\ UNCHANGED <<parse, conf, clock, ticks, disk, sweep>>

\* the source after a call of fetchWithCache has returned: the time of the
\* call, and the time of the call when it contacted a mirror
resolved(source, f) ==
    [source EXCEPT !.at = f.now,
                   !.netAt = IF f.log # <<>> THEN f.now ELSE source.netAt]

\* NewSource after fetchWithCache returned
NewSourceReturn(s) ==
    /\ frame[s].pc = "done"
    /\ frame[s].caller = "NewSource"
    /\ src' = [src EXCEPT ![s] = resolved(src[s], frame[s])]
    /\ frame' = [frame EXCEPT ![s] = IdleFrame]
    /\ UNCHANGED <<parse, conf, clock, ticks, disk, sweep>>

\* the process stops at any point and starts again: the cache files stay
Crash ==
    /\ \E s \in Sources : src[s].made
    /\ src' = [s \in Sources |-> NoSource]
    /\ frame' = [s \in Sources |-> IdleFrame]
    /\ sweep' = IdleSweep
    /\ parse' = IdleParse
    /\ UNCHANGED <<conf, clock, ticks, disk>>

\* the lists of sources handed to PrefetchSources
Orders == {<<"A">>, <<"A", "A">>, <<"A", "B">>, <<"B", "A">>}

\* a test that skips a source whose refresh time is exactly now
isDueStrict(refresh, now) == ~(refresh = ZeroTime \/ refresh >= now)

\* the test that PrefetchSources makes before it refreshes a source
\* a due test that forgets the time
isDueAlways(refresh, now) == ~(refresh = ZeroTime)

\* a due test with the comparison turned around
isDueInverted(refresh, now) == ~(refresh = ZeroTime \/ refresh < now)

isDue(refresh, now) == ~(refresh = ZeroTime \/ refresh > now)

\* the interval after a refresh returned (delay, err)
nextInterval(interval, delay, err) ==
    IF err = "" /\ delay >= MinimumPrefetchInterval
                /\ (interval = MinimumPrefetchInterval \/ interval > delay)
    THEN delay ELSE interval

\* PrefetchSources is called
PrefetchSources(sources) ==
    /\ Quiet
    /\ \A s \in Configured : src[s].made
    /\ \A k \in 1..Len(sources) : sources[k] \in Configured
    /\ sweep' = [pc |-> "loop", now |-> clock, sources |-> sources, idx |-> 1,
                 interval |-> MinimumPrefetchInterval, log |-> <<>>]
    /\ UNCHANGED <<parse, conf, clock, ticks, src, disk, frame>>

\* one iteration of the loop of PrefetchSources up to the call of
\* fetchWithCache, or the return of the interval when the loop ends
PrefetchNext ==
    /\ sweep.pc = "loop"
    /\ IF sweep.idx > Len(sweep.sources)
       THEN /\ sweep' = [sweep EXCEPT !.pc = "done"]
            /\ frame' = frame
       ELSE LET s == sweep.sources[sweep.idx]
                e == [s |-> s, refresh |-> src[s].refresh, last |-> src[s].last,
                      called |-> FALSE, delay |-> 0, err |-> "", attempts |-> 0]
            IN  IF isDue(src[s].refresh, sweep.now)
                THEN /\ sweep' = [sweep EXCEPT !.pc = "wait",
                                               !.log = Append(sweep.log, [e EXCEPT !.called = TRUE])]
                     /\ frame' = [frame EXCEPT ![s] =
                                    [IdleFrame EXCEPT !.pc = "cache", !.caller = "PrefetchSources",
                                                      !.now = sweep.now]]
                ELSE /\ sweep' = [sweep EXCEPT !.idx = sweep.idx + 1,
                                               !.log = Append(sweep.log, e)]
                     /\ frame' = frame
    /\ UNCHANGED <<parse, conf, clock, ticks, src, disk>>

\* the rest of the iteration after fetchWithCache returned
PrefetchReturn ==
    /\ sweep.pc = "wait"
    /\ LET s == sweep.sources[sweep.idx]
           f == frame[s]
           n == Len(sweep.log)
       IN  /\ f.pc = "done"
           /\ sweep' = [sweep EXCEPT !.pc = "loop", !.idx = sweep.idx + 1,
                                     !.interval = nextInterval(sweep.interval, f.delay, f.err),
                                     !.log[n].delay = f.delay, !.log[n].err = f.err,
                                     !.log[n].attempts = Len(f.log)]
           /\ frame' = [frame EXCEPT ![s] = IdleFrame]
           /\ src' = [src EXCEPT ![s] = resolved(src[s], f)]
    /\ UNCHANGED <<parse, conf, clock, ticks, disk>>

\* the caller takes the interval
PrefetchDone ==
    /\ sweep.pc = "done"
    /\ sweep' = IdleSweep
    /\ UNCHANGED <<parse, conf, clock, ticks, src, disk, frame>>

\* The text of a source is a sequence of tokens, each a piece of the text
\* that the parser never cuts: the section marker, a line break, a blank,
\* and the words of a line.
Marker == "## "
NL == "\n"
SP == " "
Names == <<"A", "B", "C", "D">>
StampTokens == {"sdns://ok", "sdns://bad", "sdns:"}
CommentToken == "// c"
TextToken == "text"

\* len(tok) in bytes
TokLen(tok) ==
    CASE tok = Marker -> 3
      [] tok \in {NL, SP} \cup {Names[k] : k \in 1..Len(Names)} -> 1
      [] tok = "sdns://ok" -> 9
      [] tok = "sdns://bad" -> 10
      [] tok = "sdns:" -> 5
      [] OTHER -> 4

\* len(str)
RECURSIVE StrLen(_)
StrLen(str) == IF str = <<>> THEN 0 ELSE TokLen(Head(str)) + StrLen(Tail(str))

\* unicode.IsSpace
IsSpace(tok) == tok \in {NL, SP}

\* strings.Split(str, sep)
RECURSIVE Split(_, _)
Split(str, sep) ==
    LET at == {k \in 1..Len(str) : str[k] = sep}
    IN  IF at = {} THEN <<str>>
        ELSE LET k == CHOOSE x \in at : \A y \in at : x <= y
             IN  <<SubSeq(str, 1, k - 1)>> \o Split(SubSeq(str, k + 1, Len(str)), sep)

\* strings.TrimFunc(str, unicode.IsSpace)
TrimFunc(str) ==
    LET keep == {k \in 1..Len(str) : ~IsSpace(str[k])}
    IN  IF keep = {} THEN <<>>
        ELSE SubSeq(str, CHOOSE x \in keep : \A y \in keep : x <= y,
                         CHOOSE x \in keep : \A y \in keep : x >= y)

\* strings.HasPrefix(subpart, "sdns:")
HasStampPrefix(subpart) == subpart # <<>> /\ Head(subpart) \in StampTokens

\* strings.HasPrefix(subpart, "//")
HasCommentPrefix(subpart) == subpart # <<>> /\ Head(subpart) = CommentToken

\* stamps.NewServerStampFromString: TRUE iff err == nil
StampDecodes(stampStr) == stampStr = <<"sdns://ok">>

\* the loop over the lines of a section after its name line, from line i
RECURSIVE scanLines(_, _, _, _)
scanLines(subparts, i, stampStr, description) ==
    IF i > Len(subparts)
    THEN [multiple |-> FALSE, stampStr |-> stampStr, description |-> description]
    ELSE LET subpart == TrimFunc(subparts[i])
         IN  IF HasStampPrefix(subpart)
             THEN IF Len(stampStr) > 0
                  THEN [multiple |-> TRUE, stampStr |-> stampStr,
                        description |-> description]
                  ELSE scanLines(subparts, i + 1, subpart, description)
             ELSE IF Len(subpart) = 0 \/ HasCommentPrefix(subpart)
             THEN scanLines(subparts, i + 1, stampStr, description)
             ELSE scanLines(subparts, i + 1, stampStr,
                            IF Len(description) > 0
                            THEN description \o <<NL>> \o subpart
                            ELSE subpart)

\* PartsLoop of parseV2 from part k on, and the returns of parseV2
RECURSIVE partsLoop(_, _, _, _, _)
partsLoop(parts, k, prefix, registeredServers, stampErrs) ==
    IF k > Len(parts)
    THEN [servers |-> registeredServers, stampErrs |-> stampErrs,
          err |-> IF Len(stampErrs) > 0 THEN "StampErrors" ELSE ""]
    ELSE LET part == TrimFunc(parts[k])
             subparts == Split(part, NL)
             name == TrimFunc(subparts[1])
             r == scanLines(Tail(subparts), 1, <<>>, <<>>)
             abort == [servers |-> registeredServers, stampErrs |-> stampErrs,
                       err |-> "InvalidFormat"]
         IN  IF Len(subparts) < 2 THEN abort
             ELSE IF Len(name) = 0 THEN abort
             ELSE IF r.multiple
             THEN partsLoop(parts, k + 1, prefix, registeredServers,
                            Append(stampErrs, [kind |-> "Multiple", name |-> <<prefix>> \o name]))
             ELSE IF StrLen(r.stampStr) < 6
             THEN partsLoop(parts, k + 1, prefix, registeredServers,
                            Append(stampErrs, [kind |-> "Missing", name |-> <<prefix>> \o name]))
             ELSE IF ~StampDecodes(r.stampStr)
             THEN partsLoop(parts, k + 1, prefix, registeredServers,
                            Append(stampErrs, [kind |-> "Invalid", name |-> <<prefix>> \o name]))
             ELSE partsLoop(parts, k + 1, prefix,
                            Append(registeredServers,
                                   [name |-> <<prefix>> \o name, stamp |-> r.stampStr,
                                    description |-> r.description]),
                            stampErrs)

\* parseV2 on the text in
parseV2(in, prefix) ==
    LET parts == Split(in, Marker)
    IN  IF Len(parts) < 2
        THEN [servers |-> <<>>, stampErrs |-> <<>>, err |-> "InvalidFormat"]
        ELSE partsLoop(Tail(parts), 1, prefix, <<>>, <<>>)

\* the text of a blob
BlobText(bin) ==
    CASE bin = "B1" -> <<Marker, "A", NL, "text", NL, "sdns://ok", NL>>
      [] bin = "B2" -> <<Marker, "A", NL, "sdns://bad", NL, Marker, "B", NL, "sdns://ok", NL>>
      [] OTHER -> <<>>

Prefixes == {"", "p-"}

\* Parse: the dispatch on source.format and in := string(source.in)
Parse(s, prefix) ==
    /\ Quiet
    /\ src[s].made
    /\ src[s].format = SourceFormatV2
    /\ parse' = [IdleParse EXCEPT !.pc = "called", !.s = s, !.prefix = prefix,
                                  !.in = BlobText(src[s].in)]
    /\ UNCHANGED <<conf, clock, ticks, src, disk, frame, sweep>>

\* parseV2 after in := string(source.in)
ParseV2 ==
    /\ parse.pc = "called"
    /\ LET r == parseV2(parse.in, parse.prefix)
       IN  parse' = [parse EXCEPT !.pc = "done", !.servers = r.servers,
                                  !.stampErrs = r.stampErrs, !.err = r.err]
    /\ UNCHANGED <<conf, clock, ticks, src, disk, frame, sweep>>

\* the caller takes the entries and the error
ParseReturn ==
    /\ parse.pc = "done"
    /\ parse' = IdleParse
    /\ UNCHANGED <<conf, clock, ticks, src, disk, frame, sweep>>

Next ==
    \/ \E d \in Ticks : Tick(d)
    \/ \E sources \in Orders : PrefetchSources(sources)
    \/ PrefetchNext
    \/ PrefetchReturn
    \/ PrefetchDone
    \/ \E s \in Sources :
          NewSource(s, conf[s].urls, conf[s].key, conf[s].format, conf[s].refreshDelay)
    \/ \E s \in Sources, io \in CacheIO : FetchFromCache(s, io)
    \/ \E s \in Sources, reply \in [bin : Blobs \cup {NoFile}, sig : Sigs \cup {NoFile}] :
          FetchFromMirror(s, reply)
    \/ \E s \in Sources, ok \in BOOLEAN : WriteBlob(s, ok)
    \/ \E s \in Sources, ok \in BOOLEAN : WriteSig(s, ok)
    \/ \E s \in Sources : NewSourceReturn(s)
    \/ \E s \in Sources, prefix \in Prefixes : Parse(s, prefix)
    \/ ParseV2
    \/ ParseReturn
    \/ Crash

Spec == Init /\ [][Next]_vars

\* a configuration file that lists two sources with one mirror each
ConcConf ==
    [s \in Sources |-> [urls |-> <<"m1">>, key |-> "K", format |-> "v2", refreshDelay |-> 0]]

\* a source after NewSource at the start of the process, a day ago: every
\* mirror had failed over a missing cache, or a mirror had served B1
Built(ok) ==
    [NoSource EXCEPT !.made = TRUE, !.urls = <<"m1">>, !.minisignKey = "K",
                     !.cacheTTL = DefaultPrefetchDelay,
                     !.prefetchDelay = DefaultPrefetchDelay,
                     !.in = IF ok THEN "B1" ELSE Nil,
                     !.inSig = IF ok THEN "K:B1" ELSE NoFile,
                     !.refresh = ZeroTime + 1 + (IF ok THEN DefaultPrefetchDelay
                                                 ELSE MinimumPrefetchInterval),
                     !.last = IF ok THEN "network" ELSE "failed",
                     !.at = ZeroTime + 1, !.netAt = ZeroTime + 1]

\* two sources were built a day ago and are both due
InitConc ==
    /\ clock = ZeroTime + 1 + DefaultPrefetchDelay
    /\ ticks = 0
    /\ conf = ConcConf
    /\ \E ok \in [Sources -> BOOLEAN] :
          /\ src = [s \in Sources |-> Built(ok[s])]
          /\ disk = [s \in Sources |->
                       [bin |-> IF ok[s] THEN "B1" ELSE NoFile,
                        sig |-> IF ok[s] THEN "K:B1" ELSE NoFile,
                        mtime |-> ZeroTime + 1]]
    /\ frame = [s \in Sources |-> IdleFrame]
    /\ sweep = IdleSweep
    /\ parse = IdleParse

\* the refresh of s is called while the refresh of another source may run:
\* the due test of PrefetchSources and the call of fetchWithCache
Refresh(s) ==
    /\ src[s].made
    /\ frame[s].pc = "idle"
    /\ isDue(src[s].refresh, clock)
    /\ frame' = [frame EXCEPT ![s] =
                   [IdleFrame EXCEPT !.pc = "cache", !.caller = "Refresh", !.now = clock]]
    /\ UNCHANGED <<parse, conf, clock, ticks, src, disk, sweep>>

\* the refresh of s returns to its caller
RefreshReturn(s) ==
    /\ frame[s].pc = "done"
    /\ frame[s].caller = "Refresh"
    /\ src' = [src EXCEPT ![s] = resolved(src[s], frame[s])]
    /\ frame' = [frame EXCEPT ![s] = IdleFrame]
    /\ UNCHANGED <<parse, conf, clock, ticks, disk, sweep>>

NextConc ==
    \/ \E s \in Sources : Refresh(s)
    \/ \E s \in Sources : RefreshReturn(s)
    \/ \E s \in Sources, io \in CacheIO : FetchFromCache(s, io)
    \/ \E s \in Sources, reply \in [bin : Blobs \cup {NoFile}, sig : Sigs \cup {NoFile}] :
          FetchFromMirror(s, reply)
    \/ \E s \in Sources, ok \in BOOLEAN : WriteBlob(s, ok)
    \/ \E s \in Sources, ok \in BOOLEAN : WriteSig(s, ok)

SpecConc == InitConc /\ [][NextConc]_vars

\* a configuration file that lists one source with two mirrors, the second
\* of which always serves a pair that verifies
LiveConf ==
    [s \in Sources |->
        IF s = "A"
        THEN [urls |-> <<"m1", "up">>, key |-> "K", format |-> "v2", refreshDelay |-> 0]
        ELSE NoConf]

\* how far the clock advances between two calls of a process that runs
\* for ever
LiveTicks == {36, 72, 144}

\* timeNow() of a process that runs for ever, and the oldest time that the
\* code can tell from it: cacheTTL and prefetchDelay are at most a day
Anchor == ZeroTime + 1 + 2 * DefaultPrefetchDelay

\* the time t as seen after the clock has advanced by d
Back(t, d) ==
    IF t = ZeroTime THEN ZeroTime
    ELSE IF t - d < ZeroTime + 1 THEN ZeroTime + 1
    ELSE t - d

\* the process starts over any cache pair, written at any earlier time
InitLive ==
    /\ clock = Anchor
    /\ ticks = 0
    /\ conf = LiveConf
    /\ src = [s \in Sources |-> NoSource]
    /\ \E pair \in InitPairs, d \in LiveTicks \cup {0} :
          disk = [s \in Sources |->
                    IF s = "A"
                    THEN [bin |-> pair.bin, sig |-> pair.sig, mtime |-> Back(Anchor, d)]
                    ELSE [bin |-> NoFile, sig |-> NoFile, mtime |-> Anchor]]
    /\ frame = [s \in Sources |-> IdleFrame]
    /\ sweep = IdleSweep
    /\ parse = IdleParse

\* the clock advances by d between calls: every time that the process
\* holds lies d further back
Pass(d) ==
    /\ Quiet
    /\ src' = [s \in Sources |->
                 [src[s] EXCEPT !.refresh = Back(src[s].refresh, d),
                                !.at = Back(src[s].at, d),
                                !.netAt = Back(src[s].netAt, d)]]
    /\ disk' = [s \in Sources |-> [disk[s] EXCEPT !.mtime = Back(disk[s].mtime, d)]]
    /\ UNCHANGED <<parse, conf, clock, ticks, frame, sweep>>

NextLive ==
    \/ \E d \in LiveTicks : Pass(d)
    \/ PrefetchSources(<<"A">>)
    \/ PrefetchNext
    \/ PrefetchReturn
    \/ PrefetchDone
    \/ \E s \in Sources :
          NewSource(s, conf[s].urls, conf[s].key, conf[s].format, conf[s].refreshDelay)
    \/ \E s \in Sources, io \in CacheIO : FetchFromCache(s, io)
    \/ \E s \in Sources, reply \in [bin : Blobs \cup {NoFile}, sig : Sigs \cup {NoFile}] :
          FetchFromMirror(s, reply)
    \/ \E s \in Sources, ok \in BOOLEAN : WriteBlob(s, ok)
    \/ \E s \in Sources, ok \in BOOLEAN : WriteSig(s, ok)
    \/ \E s \in Sources : NewSourceReturn(s)

\* every call runs to its return; the sweeps are called again and again and
\* the clock advances again and again
SpecLive ==
    /\ InitLive
    /\ [][NextLive]_vars
    /\ WF_vars(\E s \in Sources :
                  NewSource(s, conf[s].urls, conf[s].key, conf[s].format,
                            conf[s].refreshDelay))
    /\ WF_vars(\E s \in Sources : NewSourceReturn(s))
    /\ WF_vars(\E s \in Sources, io \in CacheIO : FetchFromCache(s, io))
    /\ WF_vars(\E s \in Sources,
                  reply \in [bin : Blobs \cup {NoFile}, sig : Sigs \cup {NoFile}] :
                  FetchFromMirror(s, reply))
    /\ WF_vars(\E s \in Sources, ok \in BOOLEAN : WriteBlob(s, ok))
    /\ WF_vars(\E s \in Sources, ok \in BOOLEAN : WriteSig(s, ok))
    /\ WF_vars(PrefetchNext)
    /\ WF_vars(PrefetchReturn)
    /\ WF_vars(PrefetchDone)
    /\ SF_vars(PrefetchSources(<<"A">>))
    /\ SF_vars(\E d \in LiveTicks : Pass(d))

\* the most sections of a text handed to parseV2
MaxSections == 3

\* what follows the marker of the section named n
SectionBodies(n) ==
    {<<n, NL, "sdns://ok", NL>>,
     <<n, NL, "sdns://bad", NL>>,
     <<n, NL>>,
     <<n, NL, TextToken, NL>>,
     <<n, NL, "sdns://ok", NL, "sdns://ok", NL>>,
     <<n, NL, TextToken, NL, CommentToken, NL, NL, SP, "sdns://ok", NL, TextToken, NL>>,
     <<NL, "sdns://ok", NL>>,
     <<n, NL, "sdns:", NL>>,
     <<n, SP, NL, CommentToken, NL>>}

\* the texts with k sections
RECURSIVE TextsOf(_)
TextsOf(k) ==
    IF k = 0 THEN {<<>>, <<TextToken, NL>>}
    ELSE {d \o <<Marker>> \o b : d \in TextsOf(k - 1), b \in SectionBodies(Names[k])}

Texts == UNION {TextsOf(k) : k \in 0..MaxSections}

\* Parse was called on a source whose verified content is any of the texts
InitParse ==
    /\ clock = ZeroTime + 1
    /\ ticks = 0
    /\ conf = [s \in Sources |-> NoConf]
    /\ src = [s \in Sources |-> NoSource]
    /\ disk = [s \in Sources |-> [bin |-> NoFile, sig |-> NoFile, mtime |-> ZeroTime + 1]]
    /\ frame = [s \in Sources |-> IdleFrame]
    /\ sweep = IdleSweep
    /\ \E in \in Texts, prefix \in Prefixes :
          parse = [IdleParse EXCEPT !.pc = "called", !.s = "A", !.prefix = prefix,
                                    !.in = in]

NextParse ==
    \/ ParseV2
    \/ ParseReturn

SpecParse == InitParse /\ [][NextParse]_vars

----------------------------------------------------------------------------
(* Properties *)

\* sig is a signature of bin under the public key of source s
SignedBy(s, bin, sig) ==
    /\ sig \in {"K:B1", "K:B2", "X:B1"}
    /\ (IF sig = "X:B1" THEN "X" ELSE "K") = src[s].minisignKey
    /\ (IF sig = "K:B2" THEN "B2" ELSE "B1") = bin

\* the call of s.fetchWithCache has just left fetchFromCache: no mirror was
\* contacted and no cache file was written since the cache was read
AfterCache(s) ==
    /\ frame[s].pc \in {"net", "done"}
    /\ frame[s].log = <<>>

\* the call of s.fetchWithCache is in or after writeToCache
AfterBreak(s) ==
    \/ frame[s].pc \in {"writeBin", "writeSig"}
    \/ frame[s].pc = "done" /\ frame[s].log # <<>> /\ frame[s].err = ""

\* C1: the content of a source is empty or a blob that verified, under the
\* key of the source, against the signature that was read together with it
\* (from the same cache pair or from the same mirror).
C1_TrustInvariant ==
    \A s \in Sources :
        src[s].in = Nil \/ SignedBy(s, src[s].in, src[s].inSig)

\* C1 witness: a resolve rejected the pair of one mirror and adopted the
\* verified pair of the next one
C1_Witness ==
    \E s \in Sources :
        /\ frame[s].pc = "done"
        /\ Len(frame[s].log) = 2
        /\ frame[s].log[1].err = "SignatureInvalid"
        /\ frame[s].err = ""
        /\ src[s].in = frame[s].log[2].bin

\* C2: a cache pair that is on disk and does not verify is handled like a
\* missing cache, whatever its age: the blob is not adopted, the delay of
\* the cache step is not positive, an error is noted, and with a mirror
\* the resolve goes on to the network with the provisional delay; without
\* a mirror it returns the error.
C2_CacheReverified ==
    \A s \in Sources :
        (/\ AfterCache(s)
         /\ disk[s].bin # NoFile
         /\ disk[s].sig # NoFile
         /\ ~SignedBy(s, disk[s].bin, disk[s].sig))
        => /\ ~frame[s].adopted
           /\ frame[s].err # ""
           /\ src[s].last # "cache"
           /\ IF Len(src[s].urls) > 0
              THEN frame[s].pc = "net" /\ frame[s].i = 1
                   /\ frame[s].delay = MinimumPrefetchInterval
              ELSE frame[s].pc = "done" /\ frame[s].delay = 0
                   /\ src[s].in = Nil

\* C2 witness: a pair signed with another key, younger than cacheTTL, was
\* read by a source with a mirror, which now contacts the mirror
C2_Witness ==
    \E s \in Sources :
        /\ AfterCache(s)
        /\ frame[s].pc = "net"
        /\ disk[s].bin = "B1"
        /\ disk[s].sig = "X:B1"
        /\ frame[s].now - disk[s].mtime < src[s].cacheTTL
        /\ frame[s].now - disk[s].mtime > 0

\* C3: while and after writeToCache runs, the pair on disk is the pair that
\* was there before or the new pair, never one half of each.
C3_PairAtomic ==
    \A s \in Sources :
        AfterBreak(s)
        => \/ disk[s].bin = frame[s].oldBin /\ disk[s].sig = frame[s].oldSig
           \/ disk[s].bin = frame[s].bin /\ disk[s].sig = frame[s].sig

\* C4: the mirrors are contacted in the configured order; a failed download
\* or a failed signature check moves on to the next mirror; the loop stops
\* at the first mirror whose pair verifies, whose blob and signature become
\* the result; it returns an error only after every mirror was tried.
C4_MirrorOrder ==
    \A s \in Sources :
        LET f == frame[s]
            n == Len(f.log)
        IN  /\ n <= Len(src[s].urls)
            /\ \A k \in 1..n : f.log[k].url = src[s].urls[k]
            /\ \A k \in 1..(n - 1) : f.log[k].err # ""
            /\ f.pc = "net" => f.i = n + 1 /\ (n > 0 => f.log[n].err # "")
            /\ (f.pc = "done" /\ n > 0 /\ f.err # "")
               => n = Len(src[s].urls) /\ f.log[n].err # ""
            /\ AfterBreak(s)
               => /\ f.log[n].err = ""
                  /\ SignedBy(s, f.log[n].bin, f.log[n].sig)
                  /\ src[s].in = f.log[n].bin
                  /\ src[s].inSig = f.log[n].sig
                  /\ f.bin = f.log[n].bin /\ f.sig = f.log[n].sig

\* C4 witness: M1 failed to download, M2 served a signature that does not
\* verify, M3 served a pair that verifies and is the content
C4_Witness ==
    \E s \in Sources :
        /\ frame[s].pc = "done"
        /\ Len(frame[s].log) = 3
        /\ frame[s].log[1].err = "DownloadFailed"
        /\ frame[s].log[2].err = "SignatureInvalid"
        /\ frame[s].log[3].err = ""
        /\ src[s].in = frame[s].log[3].bin

\* C5: after a resolve in which every mirror failed, nextRefresh - now is at
\* least MinimumPrefetchInterval.
C5_SchedulingFloor ==
    \A s \in Sources :
        (frame[s].pc = "done" /\ frame[s].log # <<>> /\ frame[s].err # "")
        => src[s].refresh - frame[s].now >= MinimumPrefetchInterval

\* C5 witness: every mirror failed in a resolve that had found a verified
\* cache pair older than cacheTTL
C5_Witness ==
    \E s \in Sources :
        /\ frame[s].pc = "done"
        /\ frame[s].log # <<>>
        /\ frame[s].err # ""
        /\ frame[s].adopted
        /\ frame[s].now - disk[s].mtime >= src[s].cacheTTL

\* C6: a verified cache pair whose age is below cacheTTL ends the resolve
\* without any fetch.
C6_FreshSkipsNetwork ==
    \A s \in Sources :
        (/\ AfterCache(s)
         /\ frame[s].adopted
         /\ frame[s].err = ""
         /\ frame[s].now - disk[s].mtime < src[s].cacheTTL)
        => frame[s].pc = "done"

\* the entries of the running sweep that are complete
Swept == IF sweep.pc = "wait" THEN 1..(Len(sweep.log) - 1) ELSE 1..Len(sweep.log)

\* C7: a sweep calls the refresh of a source exactly when its nextRefresh is
\* not zero and not after now, at most once; while a source is skipped no
\* call runs.  With one mirror and cacheTTL = prefetchDelay = 24h, after a
\* resolve at t0 that fetched from the mirror, the sweep at t0 + 1h skips
\* the source and the sweep at t0 + 25h makes exactly one fetch attempt.
C7_SweepDueRule ==
    /\ \A k \in 1..Len(sweep.log) :
          LET e == sweep.log[k]
              t0 == e.refresh - DefaultPrefetchDelay
          IN  /\ e.called <=> (e.refresh # ZeroTime /\ e.refresh <= sweep.now)
              /\ ~e.called => e.attempts = 0 /\ e.delay = 0
              /\ (/\ e.last = "network"
                  /\ Len(src[e.s].urls) = 1
                  /\ src[e.s].cacheTTL = DefaultPrefetchDelay)
                 => /\ sweep.now = t0 + 6 => ~e.called
                    /\ (sweep.now = t0 + 150 /\ k \in Swept)
                       => e.called /\ e.attempts = 1
    /\ \A s \in Sources :
          Cardinality({k \in 1..Len(sweep.log) : sweep.log[k].s = s /\ sweep.log[k].called}) <= 1
    /\ \A s \in Sources :
          frame[s].caller = "PrefetchSources"
          => sweep.pc = "wait" /\ sweep.sources[sweep.idx] = s

\* C7 witness: the sweep at t0 + 25h of the scenario has returned
C7_Witness ==
    /\ sweep.pc = "done"
    /\ \E k \in 1..Len(sweep.log) :
          LET e == sweep.log[k]
          IN  /\ e.last = "network"
              /\ Len(src[e.s].urls) = 1
              /\ src[e.s].cacheTTL = DefaultPrefetchDelay
              /\ sweep.now = e.refresh - DefaultPrefetchDelay + 150
              /\ e.called
              /\ e.attempts = 1

\* the least element of a non-empty set of numbers
Least(S) == CHOOSE x \in S : \A y \in S : x <= y

\* C8: the interval that a sweep returns is the least of the delays
\* nextRefresh - now, of the sources refreshed in the sweep, that are at
\* least MinimumPrefetchInterval, and MinimumPrefetchInterval without one.
C8_SweepResult ==
    sweep.pc = "done"
    => LET delays == {src[sweep.log[k].s].refresh - sweep.now :
                        k \in {j \in 1..Len(sweep.log) : sweep.log[j].called}}
           counted == {d \in delays : d >= MinimumPrefetchInterval}
       IN  sweep.interval = IF counted = {} THEN MinimumPrefetchInterval
                            ELSE Least(counted)

\* C9: every resolve of a source with a mirror ends with
\* nextRefresh = now + the delay it returns.
C9_RefreshRecomputed ==
    \A s \in Sources :
        (frame[s].pc = "done" /\ Len(src[s].urls) > 0)
        => src[s].refresh = frame[s].now + frame[s].delay

\* C9 witness: a resolve called by a sweep failed at every mirror, after an
\* earlier resolve had scheduled the source 24h ahead
C9_Witness ==
    \E s \in Sources :
        /\ frame[s].pc = "done"
        /\ frame[s].caller = "PrefetchSources"
        /\ frame[s].err # ""
        /\ frame[s].now - disk[s].mtime >= DefaultPrefetchDelay
        /\ src[s].refresh = frame[s].now + MinimumPrefetchInterval

\* C10: the resolve of a source without mirrors returns an error exactly
\* when the cache gave no verified content; it makes no fetch and leaves
\* nextRefresh zero.
C10_CacheOnly ==
    \A s \in Sources :
        (frame[s].pc = "done" /\ Len(src[s].urls) = 0)
        => /\ (frame[s].err # "") <=> ~frame[s].adopted
           /\ frame[s].adopted <=> src[s].in # Nil
           /\ frame[s].log = <<>>
           /\ src[s].refresh = ZeroTime

\* every mirror of s was tried in this resolve and every one failed
AllMirrorsFailed(s) ==
    /\ frame[s].pc = "done"
    /\ Len(frame[s].log) > 0
    /\ Len(frame[s].log) = Len(src[s].urls)
    /\ \A k \in 1..Len(frame[s].log) :
          ~SignedBy(s, frame[s].log[k].bin, frame[s].log[k].sig)

\* C11: when every mirror fails in a resolve, the resolve returns an error,
\* the content is the content that was there just before the network phase
\* (the stale cache blob adopted in this resolve, an earlier content, or
\* empty), and neither cache file is written.
C11_FailedKeepsContent ==
    \A s \in Sources :
        AllMirrorsFailed(s)
        => /\ frame[s].err # ""
           /\ src[s].in = frame[s].in0
           /\ frame[s].adopted => src[s].in = disk[s].bin
           /\ frame[s].wrote = ""
           /\ disk[s].bin = frame[s].oldBin
           /\ disk[s].sig = frame[s].oldSig

\* C11 witness: every mirror failed in a resolve that had adopted a stale
\* cache blob, and the last mirror had served a blob whose signature does
\* not decode
C11_Witness ==
    \E s \in Sources :
        /\ AllMirrorsFailed(s)
        /\ frame[s].adopted
        /\ src[s].in = "B1"
        /\ frame[s].log[Len(frame[s].log)].err = "SignatureInvalid"
        /\ frame[s].bin = "B1"

\* C12: when the pair of a mirror verifies and writeToCache fails, the
\* resolve returns no error, the content is the fresh blob and the delay is
\* prefetchDelay; when the write of the blob fails the write of the
\* signature is not attempted and both cache files are as they were.
C12_WriteFailureNotFatal ==
    \A s \in Sources :
        (frame[s].pc = "done" /\ frame[s].wrote \in {"blobFailed", "sigFailed"})
        => /\ frame[s].err = ""
           /\ src[s].in = frame[s].log[Len(frame[s].log)].bin
           /\ frame[s].delay = src[s].prefetchDelay
           /\ src[s].refresh = frame[s].now + src[s].prefetchDelay
           /\ frame[s].wrote = "blobFailed"
              => disk[s].sig = frame[s].oldSig /\ disk[s].bin = frame[s].oldBin

\* C12 witness: the write of the blob failed over a cache that holds another
\* pair, in a resolve called by a sweep
C12_Witness ==
    \E s \in Sources :
        /\ frame[s].pc = "done"
        /\ frame[s].wrote = "blobFailed"
        /\ frame[s].caller = "PrefetchSources"
        /\ src[s].in = "B2"
        /\ disk[s].bin = "B1"
        /\ disk[s].sig = "K:B1"

\* C15: when the network phase finds a pair (B, S) that verifies, the
\* content is B, the delay is prefetchDelay, nextRefresh is now +
\* prefetchDelay, and when neither write fails the cache files hold B and S.
C15_NetworkSuccess ==
    \A s \in Sources :
        LET f == frame[s]
            n == Len(f.log)
        IN  (f.pc = "done" /\ n > 0 /\ SignedBy(s, f.log[n].bin, f.log[n].sig))
            => /\ f.err = ""
               /\ src[s].in = f.log[n].bin
               /\ f.delay = src[s].prefetchDelay
               /\ src[s].refresh = f.now + src[s].prefetchDelay
               /\ f.wrote # ""
               /\ f.wrote = "ok"
                  => /\ disk[s].bin = f.log[n].bin
                     /\ disk[s].sig = f.log[n].sig
                     /\ disk[s].mtime = f.now

\* C15 witness: the second mirror served B2 with its signature over a cache
\* that held B1, and both writes succeeded
C15_Witness ==
    \E s \in Sources :
        /\ frame[s].pc = "done"
        /\ frame[s].wrote = "ok"
        /\ Len(frame[s].log) = 2
        /\ frame[s].oldBin = "B1"
        /\ disk[s].bin = "B2"
        /\ disk[s].sig = "K:B2"
        /\ src[s].in = "B2"

\* C16: two consecutive calls of a sweep that contact a mirror of the same
\* source are at least MinimumPrefetchInterval apart, whether the earlier
\* one succeeded or failed.
C16_RateLimit ==
    \A s \in Sources :
        (/\ frame[s].caller = "PrefetchSources"
         /\ frame[s].log # <<>>
         /\ src[s].netAt # ZeroTime)
        => frame[s].now - src[s].netAt >= MinimumPrefetchInterval

\* C16 witness: a sweep contacts a mirror MinimumPrefetchInterval after the
\* call in which every mirror failed
C16_Witness ==
    \E s \in Sources :
        /\ frame[s].caller = "PrefetchSources"
        /\ frame[s].pc = "writeBin"
        /\ src[s].last = "failed"
        /\ frame[s].now - src[s].netAt = MinimumPrefetchInterval

\* C19: for a source with a mirror every resolve ends with nextRefresh
\* later than its now, so a sweep calls the refresh of the source only at a
\* now later than the now of its previous resolve: a second sweep with the
\* same now skips it.
C19_RefreshAfterNow ==
    \A s \in Sources :
        Len(src[s].urls) > 0
        => /\ frame[s].pc = "done" => src[s].refresh > frame[s].now
           /\ (frame[s].pc = "idle" /\ src[s].at # ZeroTime) => src[s].refresh > src[s].at
           /\ (frame[s].caller = "PrefetchSources" /\ src[s].at # ZeroTime)
              => frame[s].now > src[s].at

\* C19 witness: a sweep with the now of the previous resolve has skipped the
\* source, whose previous resolve had found every mirror failing
C19_Witness ==
    /\ sweep.pc = "done"
    /\ \E s \in Sources :
          /\ Len(src[s].urls) > 0
          /\ src[s].at = sweep.now
          /\ src[s].last = "failed"
          /\ \A k \in 1..Len(sweep.log) : sweep.log[k].s = s /\ ~sweep.log[k].called

\* the number of section markers of a text
Markers(in) == Cardinality({k \in 1..Len(in) : in[k] = Marker})

\* the sections of a text: what follows each marker
SectionsOf(in) == Tail(Split(in, Marker))

\* the first line of every section holds a name
AllNamed(in) ==
    \A k \in 1..Len(SectionsOf(in)) : TrimFunc(Split(SectionsOf(in)[k], NL)[1]) # <<>>

\* C13: for a text with at least one section marker whose sections all have
\* a name, every section gives one entry or one collected entry-level
\* error, a section of its name line only included, and the parse is not
\* abandoned; "## A\nsdns://bad\n## B\nsdns://ok\n" gives the one entry B
\* and one error.
C13_PartialParse ==
    (parse.pc = "done" /\ Markers(parse.in) >= 1 /\ AllNamed(parse.in))
    => /\ parse.err # "InvalidFormat"
       /\ Len(parse.servers) + Len(parse.stampErrs) = Markers(parse.in)
       /\ parse.in = BlobText("B2")
          => /\ Len(parse.servers) = 1
             /\ parse.servers[1].name = <<parse.prefix, "B">>
             /\ Len(parse.stampErrs) = 1

\* C18: a text without a section marker, the empty text included, fails to
\* parse as a whole with no entry, and no other text makes parseV2 abandon
\* the parse.
C18_FormatError ==
    parse.pc = "done"
    => /\ Markers(parse.in) = 0 => parse.err = "InvalidFormat" /\ parse.servers = <<>>
       /\ parse.err = "InvalidFormat" => Markers(parse.in) = 0

\* C14: NewSource with an unsupported format or a malformed key returns an
\* error without reading the cache or contacting a mirror; the source it
\* returns has empty content, no mirror and a zero nextRefresh, no sweep
\* refreshes it, and parsing it yields no entry.
C14_ConfigError ==
    \A s \in Sources :
        (src[s].made /\ (conf[s].format # "v2" \/ conf[s].key = "malformed"))
        => /\ src[s].newErr # ""
           /\ frame[s].pc = "idle"
           /\ src[s].at = ZeroTime
           /\ src[s].last = ""
           /\ src[s].in = Nil
           /\ src[s].refresh = ZeroTime
           /\ \A k \in 1..Len(sweep.log) : sweep.log[k].s = s => ~sweep.log[k].called
           /\ (parse.pc = "done" /\ parse.s = s)
              => parse.servers = <<>> /\ parse.err = "InvalidFormat"

\* C14 witness: a source built with a malformed key over a cache pair that
\* verifies under the right key was parsed, after the clock had advanced
C14_Witness ==
    /\ parse.pc = "done"
    /\ src[parse.s].newErr = "BadKey"
    /\ disk[parse.s].bin = "B1"
    /\ disk[parse.s].sig = "K:B1"
    /\ clock > ZeroTime + 1

\* a step of the running call of s.fetchWithCache
StepOf(s) ==
    /\ frame[s].pc \in {"cache", "net", "writeBin", "writeSig"}
    /\ frame'[s] # frame[s]

\* the call of s.fetchWithCache has ended as its own reads, replies and
\* writes determine
EndsAsAlone(s) ==
    LET f == frame[s]
    IN  f.pc = "done"
        => /\ src[s].refresh = f.now + f.delay
           /\ (f.log = <<>> /\ f.adopted)
              => src[s].in = disk[s].bin /\ src[s].inSig = disk[s].sig
           /\ (f.log # <<>> /\ f.err # "")
              => /\ src[s].in = f.in0
                 /\ disk[s].bin = f.oldBin /\ disk[s].sig = f.oldSig
           /\ (f.log # <<>> /\ f.err = "")
              => /\ src[s].in = f.bin
                 /\ f.wrote = "ok"
                    => disk[s] = [bin |-> f.bin, sig |-> f.sig, mtime |-> f.now]
                 /\ f.wrote = "sigFailed"
                    => disk[s] = [bin |-> f.bin, sig |-> f.oldSig, mtime |-> f.now]
                 /\ f.wrote = "blobFailed"
                    => disk[s].bin = f.oldBin /\ disk[s].sig = f.oldSig

\* C17: while the refreshes of two sources with distinct cache paths
\* interleave, a step of the refresh of one source changes the content,
\* nextRefresh and cache files of that source only, and each refresh ends
\* in the state that its own reads, replies and writes determine, which is
\* the state it reaches when it runs alone.
C17_SourceIndependence ==
    /\ [][\A s \in Sources :
            StepOf(s) => \A t \in Sources \ {s} :
                            /\ src'[t] = src[t]
                            /\ disk'[t] = disk[t]
                            /\ frame'[t] = frame[t]]_vars
    /\ [](\A s \in Sources : EndsAsAlone(s))

\* C17 witness: the refresh of B has written its pair while the refresh of
\* A, which adopted its stale cache blob, waits for its mirror; the pairs on
\* disk differ
C17_Witness ==
    /\ frame["A"].pc = "net"
    /\ frame["A"].caller = "Refresh"
    /\ frame["B"].pc = "done"
    /\ frame["B"].caller = "Refresh"
    /\ frame["B"].wrote = "ok"
    /\ frame["A"].adopted
    /\ disk["B"].bin = "B2"
    /\ disk["A"].bin = "B1"

\* a call of s.fetchWithCache has ended with the pair of a mirror adopted
NetworkRefreshed(s) ==
    /\ frame[s].pc = "done"
    /\ frame[s].err = ""
    /\ frame[s].log # <<>>
    /\ SignedBy(s, frame[s].log[Len(frame[s].log)].bin, frame[s].log[Len(frame[s].log)].sig)
    /\ src[s].in = frame[s].log[Len(frame[s].log)].bin

\* C20: a source with a mirror that always serves a pair that verifies,
\* swept again and again while the clock advances without bound, again and
\* again ends a refresh with the blob of a mirror adopted from the network.
C20_EventualRefresh ==
    \A s \in Sources :
        (src[s].made /\ Len(src[s].urls) > 0) ~> NetworkRefreshed(s)

\* C20 witness: a sweep has ended a refresh from the second mirror, after
\* the first mirror failed, for a source that was built from its cache
C20_Witness ==
    \E s \in Sources :
        /\ NetworkRefreshed(s)
        /\ frame[s].caller = "PrefetchSources"
        /\ Len(frame[s].log) = 2
        /\ src[s].last = "network"
        /\ src[s].netAt = ZeroTime

====
